---- MODULE Spec2Model ----
(***************************************************************************)
(* The QuizTaker component of LearnFlow (components/quiz/QuizTaker): one   *)
(* quiz attempt with its answers, navigation, one-second timer, submission *)
(* and restart, together with the host callbacks onComplete and onExit.    *)
(*                                                                         *)
(* React state is modelled by one variable per useState cell.  A handler   *)
(* and the render that follows it are one step; the timer effect of        *)
(* useEffect(..., [timeRemaining, quizCompleted]) runs as the step right   *)
(* after every commit that changed one of its dependencies (and after the  *)
(* first render), and nothing else runs while it is pending.               *)
(***************************************************************************)
EXTENDS Integers, Sequences, FiniteSets, TLC

VARIABLES
    quiz,             \* the quiz prop: [timeLimit, questions]
    currentQuestion,  \* useState(0)
    answers,          \* useState({}): question index -> option index
    timeRemaining,    \* useState(quiz.timeLimit * 60)
    quizCompleted,    \* useState(false)
    showResults,      \* useState(false)
    score,            \* useState(0)
    timer,            \* TRUE while a setTimeout of the timer effect is pending
    effectPending,    \* TRUE while the timer effect is due to run
    mounted,          \* FALSE once the host has removed the component
    closeOnComplete,  \* the host closes the component inside onComplete
    delivered,        \* the record last passed to onComplete, or NoResult
    completions,      \* onComplete calls since the attempt started
    ticks,            \* timeouts fired since the attempt started
    quizData,         \* QuizCreator: useState({title, description, timeLimit, questions})
    errors,           \* QuizCreator: useState({}), the keys that hold a message
    aiLoading,        \* QuizCreator: useState(false)
    creatorOpen,      \* the host shows the QuizCreator
    saved             \* the quiz last passed to onSave, or NotSaved

\* the state of the QuizCreator and of its host's sink
creator == <<quizData, errors, aiLoading, creatorOpen, saved>>

vars == <<quiz, currentQuestion, answers, timeRemaining, quizCompleted,
          showResults, score, timer, effectPending, mounted,
          closeOnComplete, delivered, completions, ticks,
          quizData, errors, aiLoading, creatorOpen, saved>>

session == <<currentQuestion, answers, timeRemaining, quizCompleted,
             showResults, score>>

-----------------------------------------------------------------------------
(* JavaScript values *)

\* the value of a missing property (quiz.timeLimit, answers[index])
Undefined == -2000

\* the number NaN (undefined * 60); no comparison with it is true
NaN == -1000

\* seconds in a minute: quiz.timeLimit * 60
SecondsPerMinute == 60

\* a * b in JavaScript numbers, a possibly undefined
Times(a, b) == IF a = Undefined \/ a = NaN THEN NaN ELSE a * b

\* a - b in JavaScript numbers
Minus(a, b) == IF a = NaN \/ b = NaN THEN NaN ELSE a - b

\* a > 0
Positive(a) == a # NaN /\ a > 0

\* a === 0
IsZero(a) == a # NaN /\ a = 0

\* the empty object {}
EmptyAnswers == [i \in {} |-> 0]

\* obj[index]: the recorded option, or undefined
AnswerAt(ans, index) == IF index \in DOMAIN ans THEN ans[index] ELSE Undefined

\* { ...prev, [questionIndex]: answerIndex }
Spread(prev, questionIndex, answerIndex) ==
    [i \in DOMAIN prev \cup {questionIndex} |->
        IF i = questionIndex THEN answerIndex ELSE prev[i]]

(* Math.round((num / den) * 100) in IEEE 754 double arithmetic, for         *)
(* 0 <= num <= den: the quotient is rounded to 53 significant bits, the     *)
(* product by 100 is rounded to 53 significant bits again, and Math.round   *)
(* takes floor(x + 1/2) exactly.  A 53-bit significand is kept as a leading *)
(* 1 and four limbs of 13 bits, so that every intermediate value fits the   *)
(* checker's integers.                                                      *)

\* one limb: 2^13
Limb == 8192

\* the exponent s with 1 <= num * 2^s / den < 2, for 0 < num <= den
RECURSIVE Scale(_, _, _)
Scale(num, den, s) == IF num * 2^s >= den THEN s ELSE Scale(num, den, s + 1)

\* 13 more bits of the quotient r / den: <<digits, remainder>>
DivStep(r, den) == <<(r * Limb) \div den, (r * Limb) % den>>

\* the significand of num / den rounded to nearest, ties to even, times 100,
\* rounded to 53 bits again: the integer part of its value in units of 2^-s
ProductTop(num, den, s) ==
    LET a1 == DivStep(num * 2^s - den, den)
        a2 == DivStep(a1[2], den)
        a3 == DivStep(a2[2], den)
        a4 == DivStep(a3[2], den)
        r  == a4[2]
        inc == IF 2 * r > den \/ (2 * r = den /\ a4[1] % 2 = 1) THEN 1 ELSE 0
        x4 == 100 * (a4[1] + inc)
        x3 == 100 * a3[1] + (x4 \div Limb)
        x2 == 100 * a2[1] + (x3 \div Limb)
        x1 == 100 * a1[1] + (x2 \div Limb)
        top == 100 + (x1 \div Limb)
        p4 == x4 % Limb
        unit == IF top >= 128 THEN 128 ELSE 64
        rem  == p4 % unit
        up   == \/ 2 * rem > unit
                \/ 2 * rem = unit /\ (p4 \div unit) % 2 = 1
        low  == p4 - rem + (IF up THEN unit ELSE 0)
        carry == IF /\ low = Limb
                    /\ x3 % Limb = Limb - 1
                    /\ x2 % Limb = Limb - 1
                    /\ x1 % Limb = Limb - 1
                 THEN 1 ELSE 0
    IN  top + carry

RoundPercent(num, den) ==
    IF den = 0 THEN NaN
    ELSE IF num = 0 THEN 0
    ELSE LET s == Scale(num, den, 0) IN
         IF s = 0 THEN ProductTop(num, den, 0)
         ELSE (ProductTop(num, den, s) + 2^(s - 1)) \div 2^s

-----------------------------------------------------------------------------
(* The quiz prop *)

QuestionCount(q) == Len(q.questions)

\* quiz.questions[index], index counted from 0
QuestionAt(q, index) == q.questions[index + 1]

QuestionIndices(q) == 0 .. (QuestionCount(q) - 1)

OptionIndices(q, index) == 0 .. (QuestionAt(q, index).numOptions - 1)

\* a question with its correctAnswer and the length of its options array
Question(correct, n) == [correctAnswer |-> correct, numOptions |-> n]

-----------------------------------------------------------------------------
(* Pure functions of the component *)

\* faulty variant: the loop counting answers[index] !== correctAnswer
RECURSIVE CountCorrectInverted(_, _, _)
CountCorrectInverted(q, ans, index) ==
    IF index >= QuestionCount(q) THEN 0
    ELSE (IF AnswerAt(ans, index) # QuestionAt(q, index).correctAnswer
          THEN 1 ELSE 0) + CountCorrectInverted(q, ans, index + 1)

\* calculateScore: the forEach loop counting answers[index] === correctAnswer
RECURSIVE CountCorrect(_, _, _)
CountCorrect(q, ans, index) ==
    IF index >= QuestionCount(q) THEN 0
    ELSE (IF AnswerAt(ans, index) = QuestionAt(q, index).correctAnswer
          THEN 1 ELSE 0) + CountCorrect(q, ans, index + 1)

\* faulty variant: the percentage taken of the answered questions only
calculateScoreOfAnswered(q, ans) ==
    RoundPercent(CountCorrect(q, ans, 0), Cardinality(DOMAIN ans))

calculateScore(q, ans) ==
    RoundPercent(CountCorrect(q, ans, 0), QuestionCount(q))

\* allQuestionsAnswered: every index is an own property of answers
allQuestionsAnswered(q, ans) ==
    \A index \in QuestionIndices(q) : index \in DOMAIN ans

\* faulty variant: the time limit taken as seconds, without the * 60
InitialTimeRemainingMinutes(q) == Times(q.timeLimit, 1)

\* the state the useState initialisers give
InitialTimeRemaining(q) == Times(q.timeLimit, SecondsPerMinute)

-----------------------------------------------------------------------------
(* The host (DemoPage) *)

\* no record has been passed to onComplete yet
NoResult == [answers |-> EmptyAnswers, score |-> Undefined, timeSpent |-> Undefined]

\* faulty variant: an effect without cleanup, its timeout left pending when
\* the component is removed
UnmountedKeepsTimeout ==
    /\ mounted' = FALSE
    /\ timer' = timer
    /\ effectPending' = FALSE
    /\ currentQuestion' = 0
    /\ answers' = EmptyAnswers
    /\ timeRemaining' = InitialTimeRemaining(quiz)
    /\ quizCompleted' = FALSE
    /\ showResults' = FALSE
    /\ score' = 0
    /\ ticks' = 0

\* React removes the component: the effect's cleanup clears the timeout and
\* the state cells are dropped (a later mount starts from the initialisers)
Unmounted ==
    /\ mounted' = FALSE
    /\ timer' = FALSE
    /\ effectPending' = FALSE
    /\ currentQuestion' = 0
    /\ answers' = EmptyAnswers
    /\ timeRemaining' = InitialTimeRemaining(quiz)
    /\ quizCompleted' = FALSE
    /\ showResults' = FALSE
    /\ score' = 0
    /\ ticks' = 0

\* props.onComplete(results): the host takes the record
onComplete(results) ==
    /\ delivered' = results
    /\ completions' = completions + 1

\* handleDemoClose, also passed as props.onExit: setActiveDemo(null)
handleDemoClose ==
    /\ Unmounted
    /\ UNCHANGED <<creator, quiz, closeOnComplete, delivered, completions>>

-----------------------------------------------------------------------------
(* Handlers of QuizTaker *)

\* Object.values(answers): the recorded options in ascending order of their
\* keys, the order of integer keys in an object
RECURSIVE ObjectValues(_)
ObjectValues(ans) ==
    IF DOMAIN ans = {} THEN <<>>
    ELSE LET last == CHOOSE k \in DOMAIN ans : \A j \in DOMAIN ans : j <= k
         IN  Append(ObjectValues([j \in DOMAIN ans \ {last} |-> ans[j]]), ans[last])

\* the results view throws when its Correct Answers count reads
\* quiz.questions[index].correctAnswer past the last question
ResultsRenderThrows(ans) == Len(ObjectValues(ans)) > QuestionCount(quiz)

\* faulty variant: a render that tolerates a missing question
\* (question?.question)
RenderTolerates(show, current) == FALSE

\* the render throws when the quiz view reads
\* quiz.questions[currentQuestion].question of a missing question
RenderThrows(show, current) == ~show /\ current \notin QuestionIndices(quiz)

\* faulty variant: setAnswers without the ...prev spread
handleAnswerSelectAlone(questionIndex, answerIndex) ==
    /\ answers' = [i \in {questionIndex} |-> answerIndex]
    /\ UNCHANGED <<creator, quiz, currentQuestion, timeRemaining, quizCompleted,
                   showResults, score, timer, effectPending, mounted,
                   closeOnComplete, delivered, completions, ticks>>

\* faulty variant: selecting the option already recorded removes the answer
handleAnswerSelectToggle(questionIndex, answerIndex) ==
    /\ answers' = IF AnswerAt(answers, questionIndex) = answerIndex
                  THEN [i \in DOMAIN answers \ {questionIndex} |-> answers[i]]
                  ELSE Spread(answers, questionIndex, answerIndex)
    /\ UNCHANGED <<creator, quiz, currentQuestion, timeRemaining, quizCompleted,
                   showResults, score, timer, effectPending, mounted,
                   closeOnComplete, delivered, completions, ticks>>

\* faulty variant: a selection that also moves on to the next question
handleAnswerSelectAdvances(questionIndex, answerIndex) ==
    /\ answers' = Spread(answers, questionIndex, answerIndex)
    /\ currentQuestion' = IF currentQuestion < QuestionCount(quiz) - 1
                          THEN currentQuestion + 1 ELSE currentQuestion
    /\ UNCHANGED <<creator, quiz, timeRemaining, quizCompleted,
                   showResults, score, timer, effectPending, mounted,
                   closeOnComplete, delivered, completions, ticks>>

handleAnswerSelect(questionIndex, answerIndex) ==
    /\ answers' = Spread(answers, questionIndex, answerIndex)
    /\ UNCHANGED <<creator, quiz, currentQuestion, timeRemaining, quizCompleted,
                   showResults, score, timer, effectPending, mounted,
                   closeOnComplete, delivered, completions, ticks>>

\* faulty variant: the button's label (index + 1) stored as the index
setCurrentQuestionByLabel(index) ==
    /\ IF RenderThrows(showResults, index + 1)
       THEN Unmounted
       ELSE /\ currentQuestion' = index + 1
            /\ UNCHANGED <<answers, timeRemaining, quizCompleted, showResults,
                           score, timer, effectPending, mounted, ticks>>
    /\ UNCHANGED <<creator, quiz, closeOnComplete, delivered, completions>>

\* setCurrentQuestion(index), as the numbered buttons call it
setCurrentQuestion(index) ==
    /\ IF RenderThrows(showResults, index)
       THEN Unmounted
       ELSE /\ currentQuestion' = index
            /\ UNCHANGED <<answers, timeRemaining, quizCompleted, showResults,
                           score, timer, effectPending, mounted, ticks>>
    /\ UNCHANGED <<creator, quiz, closeOnComplete, delivered, completions>>

\* faulty variant: handleNext without its test of the last question
handleNextUnclamped ==
    /\ IF RenderThrows(showResults, currentQuestion + 1)
       THEN Unmounted
       ELSE /\ currentQuestion' = currentQuestion + 1
            /\ UNCHANGED <<answers, timeRemaining, quizCompleted, showResults,
                           score, timer, effectPending, mounted, ticks>>
    /\ UNCHANGED <<creator, quiz, closeOnComplete, delivered, completions>>

handleNext ==
    /\ currentQuestion' = IF currentQuestion < QuestionCount(quiz) - 1
                          THEN currentQuestion + 1 ELSE currentQuestion
    /\ UNCHANGED <<creator, quiz, answers, timeRemaining, quizCompleted, showResults,
                   score, timer, effectPending, mounted, closeOnComplete,
                   delivered, completions, ticks>>

handlePrevious ==
    /\ currentQuestion' = IF currentQuestion > 0
                          THEN currentQuestion - 1 ELSE currentQuestion
    /\ UNCHANGED <<creator, quiz, answers, timeRemaining, quizCompleted, showResults,
                   score, timer, effectPending, mounted, closeOnComplete,
                   delivered, completions, ticks>>

\* faulty variant: handleSubmitQuiz returning early while a question is
\* unanswered
handleSubmitQuizWhenComplete(pendingTimeout) ==
    LET finalScore == calculateScore(quiz, answers) IN
    /\ allQuestionsAnswered(quiz, answers)
    /\ onComplete([answers   |-> answers,
                   score     |-> finalScore,
                   timeSpent |-> Minus(Times(quiz.timeLimit, SecondsPerMinute),
                                       timeRemaining)])
    /\ IF closeOnComplete \/ ResultsRenderThrows(answers)
       THEN Unmounted
       ELSE /\ score' = finalScore
            /\ quizCompleted' = TRUE
            /\ showResults' = TRUE
            /\ timer' = pendingTimeout
            /\ effectPending' = ~quizCompleted
            /\ UNCHANGED <<currentQuestion, answers, timeRemaining, mounted,
                           ticks>>
    /\ UNCHANGED <<creator, quiz, closeOnComplete>>

\* handleSubmitQuiz; pendingTimeout tells whether a timeout of the timer
\* effect is still pending when it is called.  DemoPage's onComplete ends
\* with handleDemoClose, so there the component is removed in the same batch;
\* otherwise the results view is rendered.
handleSubmitQuiz(pendingTimeout) ==
    LET finalScore == calculateScore(quiz, answers) IN
    /\ onComplete([answers   |-> answers,
                   score     |-> finalScore,
                   timeSpent |-> Minus(Times(quiz.timeLimit, SecondsPerMinute),
                                       timeRemaining)])
    /\ IF closeOnComplete \/ ResultsRenderThrows(answers)
       THEN Unmounted
       ELSE /\ score' = finalScore
            /\ quizCompleted' = TRUE
            /\ showResults' = TRUE
            /\ timer' = pendingTimeout
            /\ effectPending' = ~quizCompleted
            /\ UNCHANGED <<currentQuestion, answers, timeRemaining, mounted,
                           ticks>>
    /\ UNCHANGED <<creator, quiz, closeOnComplete>>

\* faulty variant: handleRestart without setTimeRemaining
handleRestartKeepsTime ==
    /\ completions' = 0
    /\ IF RenderThrows(FALSE, 0)
       THEN Unmounted
       ELSE /\ currentQuestion' = 0
            /\ answers' = EmptyAnswers
            /\ quizCompleted' = FALSE
            /\ showResults' = FALSE
            /\ score' = 0
            /\ ticks' = 0
            /\ effectPending' = quizCompleted
            /\ UNCHANGED <<timeRemaining, timer, mounted>>
    /\ UNCHANGED <<creator, quiz, closeOnComplete, delivered>>

\* faulty variant: handleRestart emptying the answers object in place, the
\* object the record passed to onComplete refers to
handleRestartInPlace ==
    /\ completions' = 0
    /\ delivered' = [delivered EXCEPT !.answers = EmptyAnswers]
    /\ IF RenderThrows(FALSE, 0)
       THEN Unmounted
       ELSE /\ currentQuestion' = 0
            /\ answers' = EmptyAnswers
            /\ timeRemaining' = InitialTimeRemaining(quiz)
            /\ quizCompleted' = FALSE
            /\ showResults' = FALSE
            /\ score' = 0
            /\ ticks' = 0
            /\ effectPending' = (quizCompleted
                                 \/ timeRemaining # InitialTimeRemaining(quiz))
            /\ UNCHANGED <<timer, mounted>>
    /\ UNCHANGED <<creator, quiz, closeOnComplete>>

handleRestart ==
    /\ completions' = 0
    /\ IF RenderThrows(FALSE, 0)
       THEN Unmounted
       ELSE /\ currentQuestion' = 0
            /\ answers' = EmptyAnswers
            /\ timeRemaining' = InitialTimeRemaining(quiz)
            /\ quizCompleted' = FALSE
            /\ showResults' = FALSE
            /\ score' = 0
            /\ ticks' = 0
            /\ effectPending' = (quizCompleted
                                 \/ timeRemaining # InitialTimeRemaining(quiz))
            /\ UNCHANGED <<timer, mounted>>
    /\ UNCHANGED <<creator, quiz, closeOnComplete, delivered>>

-----------------------------------------------------------------------------
(* The timer *)

\* faulty variant: the callback taking two seconds off
TimerFiresSkips ==
    /\ mounted /\ timer /\ ~effectPending
    /\ timeRemaining' = Minus(timeRemaining, 2)
    /\ ticks' = ticks + 1
    /\ timer' = FALSE
    /\ effectPending' = TRUE
    /\ UNCHANGED <<creator, quiz, currentQuestion, answers, quizCompleted, showResults,
                   score, mounted, closeOnComplete, delivered, completions>>

\* the callback of setTimeout(..., 1000): setTimeRemaining(prev => prev - 1)
TimerFires ==
    /\ mounted /\ timer /\ ~effectPending
    /\ timeRemaining' = Minus(timeRemaining, 1)
    /\ ticks' = ticks + 1
    /\ timer' = FALSE
    /\ effectPending' = TRUE
    /\ UNCHANGED <<creator, quiz, currentQuestion, answers, quizCompleted, showResults,
                   score, mounted, closeOnComplete, delivered, completions>>

\* faulty variant: the auto-submit branch without its !quizCompleted test
TimerEffectResubmits ==
    /\ mounted /\ effectPending
    /\ IF Positive(timeRemaining) /\ ~quizCompleted
       THEN /\ timer' = TRUE
            /\ effectPending' = FALSE
            /\ UNCHANGED <<creator, quiz, session, mounted, closeOnComplete, delivered,
                           completions, ticks>>
       ELSE IF IsZero(timeRemaining)
       THEN /\ handleSubmitQuiz(FALSE)
       ELSE /\ timer' = FALSE
            /\ effectPending' = FALSE
            /\ UNCHANGED <<creator, quiz, session, mounted, closeOnComplete, delivered,
                           completions, ticks>>

\* faulty variant: the auto-submit branch submitting inline, with the score
\* taken of the answered questions only
TimerEffectInline ==
    /\ mounted /\ effectPending
    /\ IF Positive(timeRemaining) /\ ~quizCompleted
       THEN /\ timer' = TRUE
            /\ effectPending' = FALSE
            /\ UNCHANGED <<creator, quiz, session, mounted, closeOnComplete, delivered,
                           completions, ticks>>
       ELSE IF IsZero(timeRemaining) /\ ~quizCompleted
       THEN /\ onComplete([answers   |-> answers,
                           score     |-> calculateScoreOfAnswered(quiz, answers),
                           timeSpent |-> Minus(Times(quiz.timeLimit, SecondsPerMinute),
                                               timeRemaining)])
            /\ IF closeOnComplete \/ ResultsRenderThrows(answers)
               THEN Unmounted
               ELSE /\ score' = calculateScoreOfAnswered(quiz, answers)
                    /\ quizCompleted' = TRUE
                    /\ showResults' = TRUE
                    /\ timer' = FALSE
                    /\ effectPending' = TRUE
                    /\ UNCHANGED <<currentQuestion, answers, timeRemaining,
                                   mounted, ticks>>
            /\ UNCHANGED <<creator, quiz, closeOnComplete>>
       ELSE /\ timer' = FALSE
            /\ effectPending' = FALSE
            /\ UNCHANGED <<creator, quiz, session, mounted, closeOnComplete, delivered,
                           completions, ticks>>

\* faulty variant: an effect created once at mount (dependencies []), whose
\* handleSubmitQuiz still sees the answers of the first render, {}
TimerEffectStale ==
    /\ mounted /\ effectPending
    /\ IF Positive(timeRemaining) /\ ~quizCompleted
       THEN /\ timer' = TRUE
            /\ effectPending' = FALSE
            /\ UNCHANGED <<creator, quiz, session, mounted, closeOnComplete, delivered,
                           completions, ticks>>
       ELSE IF IsZero(timeRemaining) /\ ~quizCompleted
       THEN /\ onComplete([answers   |-> EmptyAnswers,
                           score     |-> calculateScore(quiz, EmptyAnswers),
                           timeSpent |-> Minus(Times(quiz.timeLimit, SecondsPerMinute),
                                               timeRemaining)])
            /\ IF closeOnComplete \/ ResultsRenderThrows(answers)
               THEN Unmounted
               ELSE /\ score' = calculateScore(quiz, EmptyAnswers)
                    /\ quizCompleted' = TRUE
                    /\ showResults' = TRUE
                    /\ timer' = FALSE
                    /\ effectPending' = TRUE
                    /\ UNCHANGED <<currentQuestion, answers, timeRemaining,
                                   mounted, ticks>>
            /\ UNCHANGED <<creator, quiz, closeOnComplete>>
       ELSE /\ timer' = FALSE
            /\ effectPending' = FALSE
            /\ UNCHANGED <<creator, quiz, session, mounted, closeOnComplete, delivered,
                           completions, ticks>>

\* faulty variant: the effect without its cleanup (return () =>
\* clearTimeout(timer)): a timeout pending at submission still fires
TimerEffectNoCleanup ==
    /\ mounted /\ effectPending
    /\ IF Positive(timeRemaining) /\ ~quizCompleted
       THEN /\ timer' = TRUE
            /\ effectPending' = FALSE
            /\ UNCHANGED <<creator, quiz, session, mounted, closeOnComplete, delivered,
                           completions, ticks>>
       ELSE IF IsZero(timeRemaining) /\ ~quizCompleted
       THEN /\ handleSubmitQuiz(FALSE)
       ELSE /\ timer' = timer
            /\ effectPending' = FALSE
            /\ UNCHANGED <<creator, quiz, session, mounted, closeOnComplete, delivered,
                           completions, ticks>>

\* faulty variant: the effect without its else-if branch, the auto-submit
TimerEffectNoAutoSubmit ==
    /\ mounted /\ effectPending
    /\ IF Positive(timeRemaining) /\ ~quizCompleted
       THEN /\ timer' = TRUE
            /\ effectPending' = FALSE
            /\ UNCHANGED <<creator, quiz, session, mounted, closeOnComplete, delivered,
                           completions, ticks>>
       ELSE /\ timer' = FALSE
            /\ effectPending' = FALSE
            /\ UNCHANGED <<creator, quiz, session, mounted, closeOnComplete, delivered,
                           completions, ticks>>

\* the timer effect: the cleanup of its previous run (clearTimeout), then
\* its body
TimerEffect ==
    /\ mounted /\ effectPending
    /\ IF Positive(timeRemaining) /\ ~quizCompleted
       THEN /\ timer' = TRUE
            /\ effectPending' = FALSE
            /\ UNCHANGED <<creator, quiz, session, mounted, closeOnComplete, delivered,
                           completions, ticks>>
       ELSE IF IsZero(timeRemaining) /\ ~quizCompleted
       THEN /\ handleSubmitQuiz(FALSE)
       ELSE /\ timer' = FALSE
            /\ effectPending' = FALSE
            /\ UNCHANGED <<creator, quiz, session, mounted, closeOnComplete, delivered,
                           completions, ticks>>

-----------------------------------------------------------------------------
(* The results view *)

\* faulty variant: the review reading the answer by its position among the
\* recorded ones, as the Correct Answers count does
isCorrectByPosition(q, ans, index) ==
    /\ index < Len(ObjectValues(ans))
    /\ ObjectValues(ans)[index + 1] = QuestionAt(q, index).correctAnswer

\* the review of question index: userAnswer === question.correctAnswer
isCorrect(q, ans, index) ==
    AnswerAt(ans, index) = QuestionAt(q, index).correctAnswer

\* the Correct Answers figure: Object.values(answers).filter((answer, index)
\* => answer === quiz.questions[index].correctAnswer).length
CorrectAnswersShown(q, ans) ==
    LET values == ObjectValues(ans) IN
    Cardinality({ index \in 0 .. (Len(values) - 1) :
                    values[index + 1] = QuestionAt(q, index).correctAnswer })

-----------------------------------------------------------------------------
(* The rendered controls *)

\* faulty variant: the quiz view rendered without the if (showResults) return
QuizViewAlways == mounted /\ ~effectPending

\* the quiz view is on screen and React is idle
QuizViewShown == mounted /\ ~effectPending /\ ~showResults

\* the results view is on screen (if (showResults) return ...)
ResultsShown == mounted /\ ~effectPending /\ showResults

LastQuestion == currentQuestion = QuestionCount(quiz) - 1

\* faulty variant: the radio inputs passing the question's number
\* (currentQuestion + 1) as its index
SelectOptionByNumber ==
    /\ QuizViewShown
    /\ \E index \in OptionIndices(quiz, currentQuestion) :
          handleAnswerSelect(currentQuestion + 1, index)

\* a radio input of the current question
SelectOption ==
    /\ QuizViewShown
    /\ \E index \in OptionIndices(quiz, currentQuestion) :
          handleAnswerSelect(currentQuestion, index)

\* the Previous button, disabled on the first question
ClickPrevious ==
    /\ QuizViewShown
    /\ currentQuestion # 0
    /\ handlePrevious

\* faulty variant: the Next button without its disabled condition
ClickNextUngated ==
    /\ QuizViewShown
    /\ ~LastQuestion
    /\ handleNext

\* the Next button: shown except on the last question, disabled until the
\* current question is answered
ClickNext ==
    /\ QuizViewShown
    /\ ~LastQuestion
    /\ currentQuestion \in DOMAIN answers
    /\ handleNext

\* one numbered button per question
ClickQuestionNumber ==
    /\ QuizViewShown
    /\ \E index \in QuestionIndices(quiz) : setCurrentQuestion(index)

\* faulty variant: the Submit Quiz button without its disabled condition
ClickSubmitUngated ==
    /\ QuizViewShown
    /\ LastQuestion
    /\ handleSubmitQuiz(timer)

\* the Submit Quiz button: shown on the last question, disabled until all
\* questions are answered
ClickSubmit ==
    /\ QuizViewShown
    /\ LastQuestion
    /\ allQuestionsAnswered(quiz, answers)
    /\ handleSubmitQuiz(timer)

\* Retake Quiz, in the results view
ClickRetake ==
    /\ ResultsShown
    /\ handleRestart

\* Continue Learning, in the results view: props.onExit
ClickContinue ==
    /\ ResultsShown
    /\ handleDemoClose

\* Close Demo, in the header DemoPage puts above the component
ClickCloseDemo ==
    /\ mounted /\ ~effectPending
    /\ handleDemoClose

-----------------------------------------------------------------------------
(* The QuizCreator component (components/quiz/QuizCreator) and its host     *)

\* the state of the QuizTaker and of its host
taker == <<quiz, currentQuestion, answers, timeRemaining, quizCompleted,
           showResults, score, timer, effectPending, mounted,
           closeOnComplete, delivered, completions, ticks>>

\* a text a generated question may lack (q.question undefined)
Missing == "undefined"

\* the texts typed into an input: empty, blank, not blank
Texts == {"", " ", "a"}

\* String.prototype.trim
Trim(text) == IF text = " " THEN "" ELSE text

\* the number of options addQuestion gives a question
BlankOptionCount == 4

\* the default time limit of a new quiz, in minutes
DefaultTimeLimit == 30

\* the most questions added by hand to a quiz under construction
MaxCreated == 1

\* the most generated questions in a quiz under construction
MaxGenerated == 1

\* useState({ title: '', description: '', timeLimit: 30, questions: [] })
FreshQuizData ==
    [title |-> "", description |-> "", timeLimit |-> DefaultTimeLimit,
     questions |-> <<>>]

\* nothing has been passed to onSave
NotSaved == [title |-> Missing, description |-> Missing, timeLimit |-> 0,
             questions |-> <<>>]

\* no QuizCreator is shown
CreatorAbsent ==
    /\ quizData = FreshQuizData
    /\ errors = {}
    /\ aiLoading = FALSE
    /\ creatorOpen = FALSE
    /\ saved = NotSaved

\* the keys of the errors object
TitleKey == <<"title", 0>>
QuestionsKey == <<"questions", 0>>
QuestionKey(index) == <<"question", index>>
OptionsKey(index) == <<"options", index>>

\* Date.now(): a number not in use as an id
FreshId(questions) ==
    CHOOSE id \in 1 .. (Len(questions) + 1) :
        \A i \in 1 .. Len(questions) : questions[i].id # id

\* generated_<now>_<index>, fallback_<now>: a string not in use as an id,
\* written as a negative number
GeneratedId(questions) ==
    CHOOSE id \in { 0 - k : k \in 1 .. (Len(questions) + 1) } :
        \A i \in 1 .. Len(questions) : questions[i].id # id

\* the questions added by hand, and the generated ones, by position
OwnQuestions(questions) ==
    { i \in 1 .. Len(questions) : questions[i].id > 0 }
GeneratedOnes(questions) ==
    { i \in 1 .. Len(questions) : questions[i].id < 0 }

\* prev.questions.filter(q => q.id !== questionId)
RECURSIVE Without(_, _)
Without(questions, questionId) ==
    IF questions = <<>> THEN <<>>
    ELSE IF Head(questions).id = questionId THEN Without(Tail(questions), questionId)
    ELSE <<Head(questions)>> \o Without(Tail(questions), questionId)

\* handleQuizChange for an input named name: the field is set and a message
\* held for it is cleared
handleQuizChange(name, value) ==
    /\ quizData' = [quizData EXCEPT ![name] = value]
    /\ errors' = errors \ {<<name, 0>>}
    /\ UNCHANGED <<aiLoading, creatorOpen, saved, taker>>

addQuestion ==
    /\ Cardinality(OwnQuestions(quizData.questions)) < MaxCreated
    /\ quizData' = [quizData EXCEPT !.questions =
                       Append(@, [id |-> FreshId(@), question |-> "",
                                  options |-> [i \in 1 .. BlankOptionCount |-> ""],
                                  correctAnswer |-> 0])]
    /\ UNCHANGED <<errors, aiLoading, creatorOpen, saved, taker>>

removeQuestion(questionId) ==
    /\ quizData' = [quizData EXCEPT !.questions = Without(@, questionId)]
    /\ UNCHANGED <<errors, aiLoading, creatorOpen, saved, taker>>

\* updateQuestion(questionId, { [field]: value })
updateQuestion(questionId, field, value) ==
    /\ quizData' = [quizData EXCEPT !.questions =
                       [i \in 1 .. Len(@) |->
                           IF @[i].id = questionId
                           THEN [@[i] EXCEPT ![field] = value] ELSE @[i]]]
    /\ UNCHANGED <<errors, aiLoading, creatorOpen, saved, taker>>

\* updateOption; optionIndex counted from 0
updateOption(questionId, optionIndex, value) ==
    /\ quizData' = [quizData EXCEPT !.questions =
                       [i \in 1 .. Len(@) |->
                           IF @[i].id = questionId
                           THEN [@[i] EXCEPT !.options =
                                    [idx \in 1 .. Len(@) |->
                                        IF idx = optionIndex + 1 THEN value ELSE @[idx]]]
                           ELSE @[i]]]
    /\ UNCHANGED <<errors, aiLoading, creatorOpen, saved, taker>>

\* what generateQuizQuestions may resolve to, one question each: the fallback
\* question, and questions of the model's JSON with two options, one of them
\* blank, or without a question text
GeneratedQuestions ==
    { [question |-> "a", options |-> <<"a", "a", "a", "a">>, correctAnswer |-> 3],
      [question |-> "a", options |-> <<"a", " ">>, correctAnswer |-> 0],
      [question |-> Missing, options |-> <<"a", "a">>, correctAnswer |-> 0] }

\* handleGenerateQuestions up to its await
handleGenerateQuestions ==
    /\ IF quizData.title = ""
       THEN /\ errors' = {TitleKey}
            /\ UNCHANGED aiLoading
       ELSE /\ aiLoading' = TRUE
            /\ UNCHANGED errors
    /\ UNCHANGED <<quizData, creatorOpen, saved, taker>>

\* handleGenerateQuestions from its await on: the generated questions are
\* appended to the questions of that moment
GenerationResolves ==
    /\ creatorOpen /\ aiLoading
    /\ aiLoading' = FALSE
    /\ \/ UNCHANGED quizData
       \/ /\ Cardinality(GeneratedOnes(quizData.questions)) < MaxGenerated
          /\ \E g \in GeneratedQuestions :
                quizData' = [quizData EXCEPT !.questions =
                    Append(@, [id |-> GeneratedId(@), question |-> g.question,
                               options |-> g.options,
                               correctAnswer |-> g.correctAnswer])]
    /\ UNCHANGED <<errors, creatorOpen, saved, taker>>


\* faulty variant: the options counted without trim()
validOptionsUntrimmed(question) ==
    { i \in 1 .. Len(question.options) : question.options[i] # "" }

\* the options of a question that are not blank:
\* question.options.filter(opt => opt.trim())
validOptions(question) ==
    { i \in 1 .. Len(question.options) : Trim(question.options[i]) # "" }

\* validateQuiz throws when question.question.trim() is called on a question
\* without a text; setErrors is not reached then
ValidateThrows(data) ==
    \E i \in 1 .. Len(data.questions) : data.questions[i].question = Missing

\* validateQuiz: the keys of newErrors
validateQuiz(data) ==
    (IF Trim(data.title) = "" THEN {TitleKey} ELSE {})
    \cup (IF Len(data.questions) = 0 THEN {QuestionsKey} ELSE {})
    \cup { QuestionKey(i - 1) : i \in { j \in 1 .. Len(data.questions) :
                                         Trim(data.questions[j].question) = "" } }
    \cup { OptionsKey(i - 1) : i \in { j \in 1 .. Len(data.questions) :
                                        Cardinality(validOptions(data.questions[j])) < 2 } }

\* React removes the QuizCreator: its state cells are dropped
CreatorClosed ==
    /\ creatorOpen' = FALSE
    /\ quizData' = FreshQuizData
    /\ errors' = {}
    /\ aiLoading' = FALSE

\* props.onSave of DemoPage: the host takes the quiz and closes the demo
onSave(data) ==
    /\ saved' = data
    /\ CreatorClosed

\* props.onCancel of DemoPage: handleDemoClose
onCancel ==
    /\ CreatorClosed
    /\ UNCHANGED <<saved, taker>>

\* handleSubmit: validateQuiz, then onSave(quizData)
handleSubmit ==
    IF ValidateThrows(quizData)
    THEN UNCHANGED vars
    ELSE /\ IF validateQuiz(quizData) = {}
            THEN onSave(quizData)
            ELSE /\ errors' = validateQuiz(quizData)
                 /\ UNCHANGED <<quizData, aiLoading, creatorOpen, saved>>
         /\ UNCHANGED taker

\* the input of handleQuizChange whose field validateQuiz reads
FieldNames == {"title"}

ChangeField ==
    /\ creatorOpen
    /\ \E name \in FieldNames, value \in Texts : handleQuizChange(name, value)

CallAddQuestion == creatorOpen /\ addQuestion

CallRemoveQuestion ==
    /\ creatorOpen
    /\ \E i \in 1 .. Len(quizData.questions) :
          removeQuestion(quizData.questions[i].id)

\* the user types into the questions added by hand
EditQuestionText ==
    /\ creatorOpen
    /\ \E i \in OwnQuestions(quizData.questions), value \in Texts :
          updateQuestion(quizData.questions[i].id, "question", value)

EditOption ==
    /\ creatorOpen
    /\ \E i \in OwnQuestions(quizData.questions), value \in Texts :
          \E optionIndex \in 0 .. (Len(quizData.questions[i].options) - 1) :
              updateOption(quizData.questions[i].id, optionIndex, value)

\* the Generate Questions button is disabled while aiLoading
CallGenerate == creatorOpen /\ ~aiLoading /\ handleGenerateQuestions

CallSubmit == creatorOpen /\ handleSubmit

ClickCancel == creatorOpen /\ onCancel

\* no QuizTaker is shown
TakerAbsent ==
    /\ quiz = [timeLimit |-> Undefined, questions |-> <<>>]
    /\ currentQuestion = 0
    /\ answers = EmptyAnswers
    /\ timeRemaining = NaN
    /\ quizCompleted = FALSE
    /\ showResults = FALSE
    /\ score = 0
    /\ timer = FALSE
    /\ effectPending = FALSE
    /\ mounted = FALSE
    /\ closeOnComplete = FALSE
    /\ delivered = NoResult
    /\ completions = 0
    /\ ticks = 0

\* the host shows a new QuizCreator
InitCreator ==
    /\ TakerAbsent
    /\ quizData = FreshQuizData
    /\ errors = {}
    /\ aiLoading = FALSE
    /\ creatorOpen = TRUE
    /\ saved = NotSaved

NextCreator ==
    \/ ChangeField
    \/ CallAddQuestion
    \/ CallRemoveQuestion
    \/ EditQuestionText
    \/ EditOption
    \/ CallGenerate
    \/ GenerationResolves
    \/ CallSubmit
    \/ ClickCancel

SpecCreator == InitCreator /\ [][NextCreator]_vars

-----------------------------------------------------------------------------
(* The component under its rendered controls *)

\* the longest time limit, in minutes
MaxTimeLimit == 1

TimeLimits == {Undefined} \cup (0 .. MaxTimeLimit)

SessionQuestions ==
    { <<Question(1, 2)>>,
      <<Question(1, 2), Question(0, 2)>> }

SessionQuizzes ==
    { [timeLimit |-> t, questions |-> qs] : t \in TimeLimits, qs \in SessionQuestions }

\* the useState initialisers, before the first run of the timer effect
Mounted(q) ==
    /\ quiz = q
    /\ currentQuestion = 0
    /\ answers = EmptyAnswers
    /\ timeRemaining = InitialTimeRemaining(q)
    /\ quizCompleted = FALSE
    /\ showResults = FALSE
    /\ score = 0
    /\ timer = FALSE
    /\ effectPending = TRUE
    /\ mounted = TRUE
    /\ delivered = NoResult
    /\ completions = 0
    /\ ticks = 0
    /\ CreatorAbsent

\* quiz definitions with an empty questions array
EmptyQuizzes == { [timeLimit |-> t, questions |-> <<>>] : t \in TimeLimits }

\* the host renders <QuizTaker quiz={q} />: the first render either throws on
\* quiz.questions[0].question, and then nothing is committed and no effect
\* ever runs, or it commits the state of the useState initialisers
FirstRender(q) ==
    /\ quiz = q
    /\ IF RenderThrows(FALSE, 0)
       THEN /\ currentQuestion = 0
            /\ answers = EmptyAnswers
            /\ timeRemaining = InitialTimeRemaining(q)
            /\ quizCompleted = FALSE
            /\ showResults = FALSE
            /\ score = 0
            /\ timer = FALSE
            /\ effectPending = FALSE
            /\ mounted = FALSE
            /\ delivered = NoResult
            /\ completions = 0
            /\ ticks = 0
            /\ CreatorAbsent
       ELSE Mounted(q)

Init ==
    /\ \E q \in SessionQuizzes \cup EmptyQuizzes : FirstRender(q)
    /\ closeOnComplete \in BOOLEAN

Next ==
    \/ TimerEffect
    \/ TimerFires
    \/ SelectOption
    \/ ClickPrevious
    \/ ClickNext
    \/ ClickQuestionNumber
    \/ ClickSubmit
    \/ ClickRetake
    \/ ClickContinue
    \/ ClickCloseDemo

Spec == Init /\ [][Next]_vars

-----------------------------------------------------------------------------
(* The handlers called directly, past the disabled and range conditions of  *)
(* the controls, while the quiz view is shown                               *)

\* question indices passed to the handlers: the valid ones and the first
\* invalid one
ArgQuestionIndices == 0 .. QuestionCount(quiz)

\* option indices passed to handleAnswerSelect: up to the first index that is
\* invalid for every question of the quiz
ArgOptionIndices ==
    0 .. QuestionAt(quiz, 0).numOptions

CallAnswerSelect ==
    /\ QuizViewShown
    /\ \E questionIndex \in ArgQuestionIndices, answerIndex \in ArgOptionIndices :
          handleAnswerSelect(questionIndex, answerIndex)

CallSetCurrentQuestion ==
    /\ QuizViewShown
    /\ \E index \in ArgQuestionIndices : setCurrentQuestion(index)

CallNext == QuizViewShown /\ handleNext

CallPrevious == QuizViewShown /\ handlePrevious

CallSubmitQuiz == QuizViewShown /\ handleSubmitQuiz(timer)

NextHandlers ==
    \/ TimerEffect
    \/ TimerFires
    \/ CallAnswerSelect
    \/ CallSetCurrentQuestion
    \/ CallNext
    \/ CallPrevious
    \/ CallSubmitQuiz

\* the quizzes the handlers are called on: no time limit, none left, a minute
HandlerQuizzes ==
    { [timeLimit |-> t, questions |-> qs] :
        t \in {Undefined, 0, 1}, qs \in SessionQuestions }

InitHandlers ==
    /\ \E q \in HandlerQuizzes : Mounted(q)
    /\ closeOnComplete \in BOOLEAN

SpecHandlers == InitHandlers /\ [][NextHandlers]_vars

-----------------------------------------------------------------------------
(* A respondent who never uses the numbered buttons *)

\* the quizzes of the handlers and one of three questions without time limit
NoJumpQuizzes ==
    HandlerQuizzes \cup
        { [timeLimit |-> Undefined,
           questions |-> <<Question(1, 2), Question(0, 2), Question(1, 2)>>] }

InitNoJump ==
    /\ \E q \in NoJumpQuizzes : Mounted(q)
    /\ closeOnComplete \in BOOLEAN

NextNoJump ==
    \/ TimerEffect
    \/ TimerFires
    \/ SelectOption
    \/ ClickPrevious
    \/ ClickNext
    \/ ClickSubmit
    \/ ClickRetake
    \/ ClickContinue
    \/ ClickCloseDemo

SpecNoJump == InitNoJump /\ [][NextNoJump]_vars

-----------------------------------------------------------------------------
(* A timed attempt whose timer keeps firing: a pending timeout fires after   *)
(* its second whatever the respondent does meanwhile, and React runs a       *)
(* pending effect                                                            *)

\* quizzes of one minute
LiveQuizzes == { [timeLimit |-> 1, questions |-> qs] : qs \in SessionQuestions }

InitLive ==
    /\ \E q \in LiveQuizzes : Mounted(q)
    /\ closeOnComplete \in BOOLEAN

SpecLive ==
    /\ InitLive
    /\ [][Next]_vars
    /\ WF_vars(TimerFires)
    /\ WF_vars(TimerEffect)

-----------------------------------------------------------------------------
(* Scoring: submission from any recorded answers *)

\* the most questions of a quiz whose answers are enumerated in full
MaxQuestions == 3

\* the options of each question of those quizzes
NumOptions == 3

\* the most questions of a quiz whose answers are a run of correct ones
MaxCount == 40

\* all quizzes of 1 .. MaxQuestions questions, by their correct answers
PatternQuizzes ==
    UNION { { [timeLimit |-> 1,
               questions |-> [i \in 1 .. n |-> Question(c[i], NumOptions)]] :
              c \in [1 .. n -> 0 .. (NumOptions - 1)] } : n \in 1 .. MaxQuestions }

\* every way of recording answers to some of the questions
AnswerMaps(q) ==
    UNION { [d -> 0 .. (NumOptions - 1)] : d \in SUBSET QuestionIndices(q) }

\* a quiz of n questions with two options each, the first being correct
LongQuiz(n) ==
    [timeLimit |-> 1, questions |-> [i \in 1 .. n |-> Question(0, 2)]]

\* all n questions answered, the first c of them correctly
RunOfCorrect(n, c) == [i \in 0 .. (n - 1) |-> IF i < c THEN 0 ELSE 1]

\* an attempt in its first second, with the answers recorded so far
InProgressWith(q, ans) ==
    /\ quiz = q
    /\ currentQuestion = QuestionCount(q) - 1
    /\ answers = ans
    /\ timeRemaining = InitialTimeRemaining(q)
    /\ quizCompleted = FALSE
    /\ showResults = FALSE
    /\ score = 0
    /\ timer = TRUE
    /\ effectPending = FALSE
    /\ mounted = TRUE
    /\ delivered = NoResult
    /\ completions = 0
    /\ ticks = 0
    /\ CreatorAbsent

InitScore ==
    /\ \/ \E q \in PatternQuizzes : \E ans \in AnswerMaps(q) : InProgressWith(q, ans)
       \/ \E n \in 1 .. MaxCount : \E c \in 0 .. n :
             InProgressWith(LongQuiz(n), RunOfCorrect(n, c))
    /\ closeOnComplete \in BOOLEAN

NextScore ==
    \/ CallSubmitQuiz
    \/ TimerEffect

SpecScore == InitScore /\ [][NextScore]_vars

-----------------------------------------------------------------------------
(* Properties *)

\* the attempt is on a quiz with a time limit of at least one minute
Timed == quiz.timeLimit # Undefined /\ quiz.timeLimit >= 1

\* the seconds of the time limit of a timed quiz
LimitSeconds == quiz.timeLimit * 60

\* the questions whose recorded answer is the correct one
NumCorrect(q, ans) ==
    Cardinality({ i \in QuestionIndices(q) :
                    i \in DOMAIN ans /\ ans[i] = QuestionAt(q, i).correctAnswer })

\* 100 * c / n rounded to the nearest integer, halves up, in exact arithmetic
ExactPercent(c, n) == (200 * c + n) \div (2 * n)

(* C1: within one attempt onComplete is called at most once, and the attempt *)
(* is Submitted exactly when it has been called once: a Submitted attempt    *)
(* never shows as in progress again before a restart, whether the submission *)
(* came from the Submit button or from the timer.                            *)
SubmittedOncePerAttempt ==
    /\ completions \in {0, 1}
    /\ mounted => (quizCompleted <=> completions = 1)

\* an explicit submission made while a timeout of the timer was still pending
ExplicitSubmitWithTimeoutPending ==
    /\ mounted /\ quizCompleted /\ completions = 1
    /\ timer /\ Positive(timeRemaining)

(* C2: on a quiz without a time limit (timeLimit 0 or missing) no timeout is *)
(* ever pending, no tick happens, and a record reaches onComplete only by    *)
(* the Submit button, that is with every question answered.                  *)
UntimedNeverAutoSubmitted ==
    (quiz.timeLimit = 0 \/ quiz.timeLimit = Undefined) =>
        /\ ticks = 0
        /\ ~timer
        /\ completions > 0 => allQuestionsAnswered(quiz, delivered.answers)

(* C3: on a timed quiz of T seconds, after k ticks the remaining time is     *)
(* T - k; before the T-th tick the attempt is Submitted only by the Submit   *)
(* button; once the T-th tick has brought the time to 0 and the effect has   *)
(* run, the attempt is Submitted with exactly the answers recorded, and no   *)
(* timeout is pending any more.                                              *)
TimerBoundary ==
    (Timed /\ mounted) =>
        /\ ticks \in 0 .. LimitSeconds
        /\ timeRemaining = LimitSeconds - ticks
        /\ (quizCompleted /\ ticks < LimitSeconds) =>
              (allQuestionsAnswered(quiz, answers) /\ LastQuestion)
        /\ (ticks = LimitSeconds /\ ~effectPending) =>
              /\ quizCompleted
              /\ completions = 1
              /\ delivered.answers = answers
        /\ ticks = LimitSeconds => ~timer

\* the timer ran out with only the second question answered
AutoSubmittedWithPartialAnswers ==
    /\ mounted /\ quizCompleted /\ Timed
    /\ ticks = LimitSeconds /\ timeRemaining = 0
    /\ DOMAIN answers = {1}
    /\ delivered.answers = answers

(* C4: the score of a submitted attempt is 100 * correct / questions rounded *)
(* to the nearest integer, an unanswered question counting as incorrect.     *)
ScoreIsRoundedPercentage ==
    completions > 0 =>
        delivered.score = ExactPercent(NumCorrect(quiz, delivered.answers),
                                       QuestionCount(quiz))

(* C5: while the attempt stays Submitted no step changes answers,            *)
(* currentQuestion, timeRemaining or score.                                  *)
TerminalWhenSubmitted ==
    [][ (mounted /\ quizCompleted /\ mounted' /\ quizCompleted') =>
            UNCHANGED <<answers, currentQuestion, timeRemaining, score>> ]_vars

\* a Submitted attempt with time left, its pending timeout cleared
SubmittedWithTimeLeft ==
    /\ mounted /\ quizCompleted /\ ~effectPending
    /\ ~timer /\ Positive(timeRemaining)

(* C6: handleSubmitQuiz can be called in every state of an attempt in        *)
(* progress, whatever answers are recorded, and leaves the attempt Submitted *)
(* with those answers and the score that counts unanswered questions as      *)
(* incorrect.                                                                *)
SubmitNeverBlocked ==
    /\ QuizViewShown => ENABLED CallSubmitQuiz
    /\ (mounted /\ quizCompleted) =>
          /\ completions = 1
          /\ delivered.answers = answers
          /\ score = ExactPercent(NumCorrect(quiz, answers), QuestionCount(quiz))

\* an attempt submitted before any answer was recorded, time remaining
SubmittedWithNoAnswers ==
    /\ mounted /\ quizCompleted /\ completions = 1
    /\ answers = EmptyAnswers
    /\ Positive(timeRemaining)
    /\ score = 0

(* C7: a freshly mounted attempt (first render done, timer effect not yet    *)
(* run) is in progress on question 0 with no answers, score 0 and            *)
(* timeLimit * 60 seconds remaining.                                         *)
FreshAttempt ==
    (mounted /\ effectPending /\ ticks = 0 /\ completions = 0
        /\ delivered = NoResult) =>
        /\ ~quizCompleted
        /\ ~showResults
        /\ currentQuestion = 0
        /\ answers = EmptyAnswers
        /\ score = 0
        /\ quiz.timeLimit >= 0 => timeRemaining = quiz.timeLimit * 60

\* a fresh attempt on a quiz of one minute
FreshTimedAttempt ==
    /\ mounted /\ effectPending /\ ticks = 0 /\ completions = 0
    /\ delivered = NoResult
    /\ quiz.timeLimit = 1
    /\ timeRemaining = 60
    /\ ~quizCompleted

(* C8: the step from a Submitted attempt back to an attempt in progress      *)
(* (Retake Quiz) gives the state of a fresh attempt, with the timer effect   *)
(* due to run; and on a timed quiz an idle attempt in progress always has    *)
(* its timeout pending.                                                      *)
RestartGivesFreshSession ==
    /\ [][ (mounted /\ quizCompleted /\ mounted' /\ ~quizCompleted') =>
              /\ currentQuestion' = 0
              /\ answers' = EmptyAnswers
              /\ score' = 0
              /\ ~showResults'
              /\ quiz.timeLimit >= 0 => timeRemaining' = quiz.timeLimit * 60
              /\ ticks' = 0
              /\ completions' = 0
              /\ effectPending' /\ ~timer' ]_vars
    /\ [](( Timed /\ mounted /\ ~quizCompleted /\ ~effectPending) => timer)

\* a restarted attempt whose timer has ticked once
RestartedAttemptTicking ==
    /\ mounted /\ ~quizCompleted
    /\ delivered # NoResult
    /\ timer /\ ticks = 1
    /\ timeRemaining = LimitSeconds - 1

OutOfRange(questionIndex, answerIndex) ==
    \/ questionIndex \notin QuestionIndices(quiz)
    \/ answerIndex \notin OptionIndices(quiz, questionIndex)

(* C10: a call of handleAnswerSelect with a question or option index out of  *)
(* range, or of setCurrentQuestion with a question index out of range,       *)
(* leaves the session state unchanged.                                       *)
OutOfRangeArgumentsRejected ==
    [][ ( /\ QuizViewShown
          /\ \/ \E q \in ArgQuestionIndices, a \in ArgOptionIndices :
                   OutOfRange(q, a) /\ handleAnswerSelect(q, a)
             \/ \E i \in ArgQuestionIndices :
                   i \notin QuestionIndices(quiz) /\ setCurrentQuestion(i) )
        => UNCHANGED session ]_vars

(* C11: a quiz with no questions is refused when the component is created:   *)
(* the first render throws, so the component is never mounted, its timer     *)
(* effect never runs, no score is computed and nothing reaches onComplete.   *)
EmptyQuizRefused ==
    QuestionCount(quiz) = 0 =>
        /\ ~mounted
        /\ ~timer /\ ~effectPending
        /\ ~quizCompleted /\ ~showResults
        /\ score = 0
        /\ completions = 0
        /\ delivered = NoResult

\* an empty quiz with a time limit of 0, the one whose timer effect would
\* submit at once, has been handed to the component
EmptyQuizHandedOver ==
    /\ QuestionCount(quiz) = 0
    /\ quiz.timeLimit = 0
    /\ ~mounted
    /\ timeRemaining = 0

(* C12: every score computed at submission is an integer from 0 to 100; it   *)
(* is 100 when every question is answered correctly and 0 when no question   *)
(* is, the case of no answers at all included.                               *)
ScoreRange ==
    /\ score \in 0 .. 100
    /\ completions > 0 =>
          /\ delivered.score \in 0 .. 100
          /\ NumCorrect(quiz, delivered.answers) = QuestionCount(quiz) =>
                delivered.score = 100
          /\ NumCorrect(quiz, delivered.answers) = 0 => delivered.score = 0
    /\ (mounted /\ quizCompleted) => score = delivered.score

\* a quiz of three questions submitted with every answer correct, the
\* correct options not all the same
AllCorrectSubmitted ==
    /\ completions = 1
    /\ mounted /\ quizCompleted
    /\ QuestionCount(quiz) = 3
    /\ QuestionAt(quiz, 0).correctAnswer # QuestionAt(quiz, 1).correctAnswer
    /\ NumCorrect(quiz, delivered.answers) = 3
    /\ score = 100

\* the correct option of question i
CorrectOf(i) == QuestionAt(quiz, i).correctAnswer

(* C13: for the quiz and the answers of any attempt, recording the correct   *)
(* option for one question that is unanswered or answered incorrectly gives  *)
(* answers whose score is not lower; the score delivered at submission is    *)
(* the score of the answers recorded.                                        *)
ScoreMonotone ==
    /\ completions > 0 => delivered.score = calculateScore(quiz, delivered.answers)
    /\ \A i \in QuestionIndices(quiz) :
          AnswerAt(answers, i) # CorrectOf(i) =>
              calculateScore(quiz, Spread(answers, i, CorrectOf(i)))
                  >= calculateScore(quiz, answers)

\* a submitted attempt of a long quiz with one answer short of all correct:
\* correcting it raises the score delivered
OneShortOfAllCorrect ==
    /\ completions = 1
    /\ QuestionCount(quiz) = MaxCount
    /\ NumCorrect(quiz, delivered.answers) = MaxCount - 1
    /\ \E i \in QuestionIndices(quiz) :
          /\ AnswerAt(delivered.answers, i) # CorrectOf(i)
          /\ calculateScore(quiz, Spread(delivered.answers, i, CorrectOf(i)))
                > delivered.score

\* answers' is answers with option a recorded for question q, nothing else
\* added, dropped or changed
WrittenOver(q, a) ==
    /\ DOMAIN answers' = DOMAIN answers \cup {q}
    /\ answers'[q] = a
    /\ \A j \in DOMAIN answers \ {q} : answers'[j] = answers[j]

(* C14: an attempt starts with no recorded answer, and every step of an      *)
(* attempt in progress (selection, navigation, tick, submission) either      *)
(* leaves answers as it is or records one valid option for the question      *)
(* selected, over the option recorded before, keeping the answers of all     *)
(* other questions: each recorded answer is the last option selected for its *)
(* question, and a question never selected has none.                         *)
LastWriteWins ==
    /\ []((mounted /\ effectPending /\ ticks = 0 /\ completions = 0) =>
              answers = EmptyAnswers)
    /\ [][ (mounted /\ ~quizCompleted /\ mounted') =>
              \/ answers' = answers
              \/ /\ QuizViewShown
                 /\ \E a \in OptionIndices(quiz, currentQuestion) :
                       WrittenOver(currentQuestion, a) ]_vars

\* back on the first question after the second one was answered, within the
\* same attempt and after a tick
BothAnsweredBackOnFirst ==
    /\ QuizViewShown /\ ~quizCompleted
    /\ QuestionCount(quiz) = 2
    /\ DOMAIN answers = {0, 1}
    /\ answers[0] = 0 /\ answers[1] = 1
    /\ currentQuestion = 0
    /\ ticks > 0

(* C15: handleAnswerSelect(i, k) called in a state where option k is already *)
(* recorded for question i, as it is right after a first call with (i, k),   *)
(* leaves answers as they are.                                               *)
SelectTwiceSame ==
    [][ \A i \in ArgQuestionIndices, k \in ArgOptionIndices :
          (QuizViewShown /\ AnswerAt(answers, i) = k /\ handleAnswerSelect(i, k))
              => answers' = answers ]_vars

\* option 1 recorded for the question shown, where it can be selected again
RecordedOptionSelectable ==
    /\ QuizViewShown /\ ~quizCompleted
    /\ currentQuestion = 1
    /\ AnswerAt(answers, 1) = 1
    /\ AnswerAt(answers, 0) = 0

\* the step is a call of onComplete
Submits == completions' > completions

\* the record of a submission on a timed quiz: the answers and remaining time
\* of the moment, the score of those answers, the time spent within the limit
TimedRecord ==
    /\ delivered'.answers = answers
    /\ delivered'.score = calculateScore(quiz, answers)
    /\ delivered'.timeSpent = LimitSeconds - timeRemaining
    /\ delivered'.timeSpent = ticks
    /\ delivered'.timeSpent \in 0 .. LimitSeconds
    /\ timeRemaining = 0 => delivered'.timeSpent = LimitSeconds

\* the record of a submission on a quiz without a time limit: the time spent
\* is an elapsed time, a number of seconds from 0 up
UntimedRecord ==
    /\ delivered'.answers = answers
    /\ delivered'.score = calculateScore(quiz, answers)
    /\ delivered'.timeSpent # NaN
    /\ delivered'.timeSpent >= 0

IndicesValid ==
    mounted =>
        /\ currentQuestion \in QuestionIndices(quiz)
        /\ \A k \in DOMAIN answers :
              /\ k \in QuestionIndices(quiz)
              /\ answers[k] \in OptionIndices(quiz, k)

\* a restarted attempt on its last question with both questions answered
RestartedOnLastQuestion ==
    /\ mounted /\ ~quizCompleted
    /\ delivered # NoResult
    /\ QuestionCount(quiz) = 2
    /\ currentQuestion = 1
    /\ DOMAIN answers = {0, 1}
    /\ ticks > 0

(* C18: handleNext moves currentQuestion one up unless it is the last        *)
(* question and handlePrevious one down unless it is the first; each changes *)
(* nothing else, and at the boundary nothing at all.                         *)
NavigationClamped ==
    /\ [][ (QuizViewShown /\ handleNext) =>
              /\ currentQuestion' = IF currentQuestion = QuestionCount(quiz) - 1
                                    THEN currentQuestion ELSE currentQuestion + 1
              /\ mounted'
              /\ UNCHANGED <<creator, quiz, answers, timeRemaining, quizCompleted,
                             showResults, score, timer, effectPending,
                             closeOnComplete, delivered, completions, ticks>> ]_vars
    /\ [][ (QuizViewShown /\ handlePrevious) =>
              /\ currentQuestion' = IF currentQuestion = 0
                                    THEN 0 ELSE currentQuestion - 1
              /\ mounted'
              /\ UNCHANGED <<creator, quiz, answers, timeRemaining, quizCompleted,
                             showResults, score, timer, effectPending,
                             closeOnComplete, delivered, completions, ticks>> ]_vars

\* on the last question with no answer recorded, where handleNext can still
\* be called
LastQuestionUnanswered ==
    /\ QuizViewShown /\ ~quizCompleted
    /\ QuestionCount(quiz) = 2
    /\ currentQuestion = 1
    /\ answers = EmptyAnswers
    /\ timer

(* C19: a numbered button of the quiz view sets currentQuestion to its index *)
(* whatever answers are recorded, and changes nothing else.                  *)
JumpSetsIndex ==
    [][ \A index \in QuestionIndices(quiz) :
          (QuizViewShown /\ setCurrentQuestion(index)) =>
              /\ currentQuestion' = index
              /\ mounted'
              /\ UNCHANGED <<creator, quiz, answers, timeRemaining, quizCompleted,
                             showResults, score, timer, effectPending,
                             closeOnComplete, delivered, completions, ticks>> ]_vars

\* on the second question while the first is unanswered: reached by a jump
\* ahead, the Next button being disabled on an unanswered question
JumpedOverUnanswered ==
    /\ QuizViewShown /\ ~quizCompleted
    /\ QuestionCount(quiz) = 2
    /\ currentQuestion = 1
    /\ 0 \notin DOMAIN answers
    /\ delivered = NoResult

(* C20: a call of onComplete made by a control (not by the timer effect) is  *)
(* made in an attempt in progress, on the last question, with every question *)
(* answered; a record with an unanswered question comes from the timer       *)
(* effect finding timeRemaining at 0.                                        *)
ExplicitSubmitGated ==
    /\ [][ (Submits /\ ~effectPending) =>
              /\ ~quizCompleted
              /\ LastQuestion
              /\ allQuestionsAnswered(quiz, answers)
              /\ delivered'.answers = answers ]_vars
    /\ [][ (Submits /\ ~allQuestionsAnswered(quiz, delivered'.answers)) =>
              /\ effectPending
              /\ IsZero(timeRemaining)
              /\ ~quizCompleted ]_vars

\* submitted by the Submit Quiz button with time left and both questions
\* answered
ExplicitlySubmittedComplete ==
    /\ mounted /\ quizCompleted /\ ~effectPending
    /\ completions = 1
    /\ QuestionCount(quiz) = 2
    /\ currentQuestion = 1
    /\ Positive(timeRemaining)
    /\ delivered.answers = answers
    /\ DOMAIN answers = {0, 1}

\* the step is a submission made by the timer effect
AutoSubmits == Submits /\ effectPending

\* the step is a submission made by the Submit Quiz button
ExplicitSubmits == Submits /\ ~effectPending

\* what a submission of the answers recorded must deliver and show
SubmissionOf(ans) ==
    /\ delivered'.answers = ans
    /\ delivered'.score = calculateScore(quiz, ans)
    /\ mounted' => /\ quizCompleted' /\ showResults'
                    /\ score' = delivered'.score
                    /\ answers' = ans

(* C21: a submission by the timer effect and a submission by the Submit Quiz *)
(* button deliver the same for the same quiz and recorded answers: the       *)
(* answers as recorded and the score calculateScore gives for them, and both *)
(* leave the attempt Submitted with that score shown.                        *)
SameResultEitherWay ==
    /\ [][ AutoSubmits => SubmissionOf(answers) ]_vars
    /\ [][ ExplicitSubmits => SubmissionOf(answers) ]_vars

\* the timer ran out on an attempt with both questions answered, one of them
\* correctly: answers the Submit Quiz button could have submitted as well
AutoSubmittedComplete ==
    /\ mounted /\ quizCompleted /\ Timed
    /\ timeRemaining = 0 /\ ticks = LimitSeconds
    /\ QuestionCount(quiz) = 2
    /\ DOMAIN answers = {0, 1}
    /\ currentQuestion = 0
    /\ score = 50
    /\ delivered.score = 50

(* C22: when the timer effect finds timeRemaining at 0 it submits the        *)
(* answers as they are at that moment, the selections of the last second     *)
(* included, and their score, however selections and ticks were interleaved. *)
AutoSubmitSeesLatestAnswers ==
    /\ [][ (AutoSubmits /\ Timed) =>
              /\ ticks = LimitSeconds
              /\ delivered'.answers = answers
              /\ delivered'.score = calculateScore(quiz, answers) ]_vars
    /\ [][ (Timed /\ mounted /\ ~quizCompleted /\ ticks = LimitSeconds - 1
              /\ mounted' /\ ~quizCompleted' /\ ticks' = LimitSeconds) =>
              answers' = answers ]_vars

\* the last second of an attempt with an answer recorded: the timeout is
\* pending and a selection can still come before it fires
AnsweredInLastSecond ==
    /\ QuizViewShown /\ Timed
    /\ timer /\ timeRemaining = 1
    /\ ticks = LimitSeconds - 1
    /\ answers # EmptyAnswers

\* the step is Retake Quiz: from a Submitted attempt to one in progress
Restarts == quizCompleted /\ ~quizCompleted'

(* C23: on a timed quiz timeRemaining stays within 0 .. timeLimit * 60; a    *)
(* tick comes only in an attempt in progress with time left, takes exactly   *)
(* one second off and changes neither answers nor currentQuestion; within an *)
(* attempt timeRemaining never grows, and once the attempt is Submitted it   *)
(* does not change.                                                          *)
TimeRemainingBounded ==
    /\ []((Timed /\ mounted) => timeRemaining \in 0 .. LimitSeconds)
    /\ [][ (Timed /\ ticks' = ticks + 1) =>
              /\ ~quizCompleted
              /\ timeRemaining > 0
              /\ timeRemaining' = timeRemaining - 1
              /\ UNCHANGED <<answers, currentQuestion>> ]_vars
    /\ [][ (Timed /\ mounted /\ mounted' /\ ~Restarts) =>
              timeRemaining' <= timeRemaining ]_vars
    /\ [][ (Timed /\ mounted /\ mounted' /\ quizCompleted /\ quizCompleted') =>
              timeRemaining' = timeRemaining ]_vars

\* an attempt submitted after some ticks, idle with its time left frozen
SubmittedAfterTicks ==
    /\ mounted /\ quizCompleted /\ ~effectPending /\ ~timer
    /\ Timed
    /\ ticks > 0
    /\ timeRemaining = LimitSeconds - ticks
    /\ timeRemaining > 0
    /\ delivered.timeSpent = ticks

(* C24: handleAnswerSelect(i, k) records k for question i and changes no     *)
(* other answer, nor currentQuestion, timeRemaining, quizCompleted,          *)
(* showResults or score; and within an attempt no step removes a key from    *)
(* answers: the answered questions only grow until Retake Quiz.              *)
SelectChangesOneAnswer ==
    /\ [][ \A i \in QuestionIndices(quiz) : \A k \in OptionIndices(quiz, i) :
              (QuizViewShown /\ handleAnswerSelect(i, k)) =>
                  /\ WrittenOver(i, k)
                  /\ UNCHANGED <<currentQuestion, timeRemaining, quizCompleted,
                                 showResults, score, timer, mounted, ticks,
                                 delivered, completions>> ]_vars
    /\ [][ (mounted /\ mounted' /\ ~Restarts) =>
              /\ DOMAIN answers \subseteq DOMAIN answers'
              /\ Cardinality(DOMAIN answers') <= Cardinality(DOMAIN answers) + 1 ]_vars

\* both questions answered before the first tick, the second one being shown
BothAnsweredBeforeFirstTick ==
    /\ QuizViewShown /\ Timed
    /\ ticks = 0
    /\ QuestionCount(quiz) = 2
    /\ currentQuestion = 1
    /\ DOMAIN answers = {0, 1}
    /\ answers[0] = 1 /\ answers[1] = 0

(* C25: in the review of a submitted attempt question i is marked correct    *)
(* exactly when an answer is recorded for it and is its correctAnswer; a     *)
(* question with no recorded answer is marked incorrect.                     *)
ReviewMarksCorrect ==
    ResultsShown =>
        \A i \in QuestionIndices(quiz) :
            /\ isCorrect(quiz, answers, i) <=>
                  (i \in DOMAIN answers /\ answers[i] = CorrectOf(i))
            /\ i \notin DOMAIN answers => ~isCorrect(quiz, answers, i)

\* the results of an attempt with the first question unanswered, the second
\* answered correctly and the third incorrectly
ReviewOfMixedAttempt ==
    /\ ResultsShown
    /\ QuestionCount(quiz) = 3
    /\ DOMAIN answers = {1, 2}
    /\ answers[1] = CorrectOf(1)
    /\ answers[2] # CorrectOf(2)

(* C26: the Correct Answers figure of the results view is the number of      *)
(* questions answered correctly, the number the score is computed from.      *)
CorrectAnswersFigure ==
    ResultsShown =>
        CorrectAnswersShown(quiz, answers) = CountCorrect(quiz, answers, 0)

(* C27: on a timed quiz whose timer keeps firing, every attempt in progress, *)
(* the first and every one Retake Quiz starts, is eventually submitted       *)
(* unless the component is closed first, whatever the respondent does; and   *)
(* it is never in progress after more than timeLimit * 60 ticks.             *)
TimedAttemptEnds ==
    /\ (Timed /\ mounted /\ completions = 0) ~> (completions = 1 \/ ~mounted)
    /\ []((Timed /\ mounted /\ completions = 0) =>
            /\ ticks <= LimitSeconds
            /\ ticks = LimitSeconds => effectPending)

\* an attempt that ran out with nothing selected
AttemptRanOutUntouched ==
    /\ mounted /\ quizCompleted /\ completions = 1
    /\ ticks = LimitSeconds
    /\ answers = EmptyAnswers
    /\ delivered.answers = EmptyAnswers
    /\ delivered.timeSpent = LimitSeconds

(* C28: once the component is removed no timeout and no effect is pending,   *)
(* and nothing happens for it any more: no tick, no call of onComplete, no   *)
(* record delivered; closing an attempt in progress delivers nothing.        *)
AbandonedStaysSilent ==
    /\ [](~mounted => (~timer /\ ~effectPending))
    /\ [][ (mounted /\ ~quizCompleted /\ ~mounted' /\ ~closeOnComplete) =>
              /\ delivered' = delivered
              /\ completions' = completions ]_vars
    /\ [][ ~mounted =>
              /\ ~mounted'
              /\ ticks' = ticks
              /\ completions' = completions
              /\ delivered' = delivered ]_vars

\* a timed attempt closed before anything was submitted
ClosedInProgress ==
    /\ ~mounted
    /\ QuestionCount(quiz) > 0
    /\ Timed
    /\ completions = 0
    /\ delivered = NoResult
    /\ ~timer

(* C29: without the numbered buttons, every question before the one shown    *)
(* has a recorded answer in every state of an attempt.                       *)
EarlierQuestionsAnswered ==
    mounted => \A i \in 0 .. (currentQuestion - 1) : i \in DOMAIN answers

\* back on the second of three questions by Previous, all three answered
BackFromThirdQuestion ==
    /\ QuizViewShown
    /\ QuestionCount(quiz) = 3
    /\ currentQuestion = 1
    /\ DOMAIN answers = {0, 1, 2}

\* a text with something other than blanks in it
NonBlank(text) == text \notin {"", " ", Missing}

\* the quiz has a title, a question, and in every question a text and two
\* options that are not blank
ValidQuiz(data) ==
    /\ NonBlank(data.title)
    /\ Len(data.questions) >= 1
    /\ \A i \in 1 .. Len(data.questions) :
          /\ NonBlank(data.questions[i].question)
          /\ Cardinality({ o \in 1 .. Len(data.questions[i].options) :
                             NonBlank(data.questions[i].options[o]) }) >= 2

(* C30: onSave is called only with the quiz under construction and only when *)
(* it has a non-blank title, at least one question, and in every question a  *)
(* non-blank text and at least two non-blank options; a handleSubmit on any  *)
(* other quiz calls no onSave and leaves the quiz as it is.                  *)
SavedOnlyWhenValid ==
    /\ [][ saved' # saved => (ValidQuiz(quizData) /\ saved' = quizData) ]_vars
    /\ [][ (creatorOpen /\ ~ValidQuiz(quizData) /\ handleSubmit) =>
              /\ saved' = saved
              /\ quizData' = quizData
              /\ creatorOpen' ]_vars
    /\ [](saved # NotSaved => ValidQuiz(saved))

\* a saved quiz of two questions, one of them with a blank option beside two
\* that are not blank
SavedWithBlankOption ==
    /\ saved # NotSaved
    /\ ~creatorOpen
    /\ Len(saved.questions) = 2
    /\ \E i \in 1 .. 2 :
          /\ Len(saved.questions[i].options) = BlankOptionCount
          /\ \E o \in 1 .. BlankOptionCount : saved.questions[i].options[o] = " "

====
